---- MODULE Spec2Model ----
(***************************************************************************)
(* KnightRace and RotatingGears: two custom constraint components of the   *)
(* sudokumaker.app constraint tool, together with the host engine that     *)
(* drives them (assignments, pencil marks, directive application).         *)
(*                                                                         *)
(* Cells are the zero-based indices 0 .. size*size-1 of the grid.  A cell  *)
(* without value is modelled by the value NoValue.  A puzzle session loads *)
(* one of the two component scripts (rule).                                *)
(***************************************************************************)
EXTENDS Integers, Sequences, FiniteSets, TLC

VARIABLES
    rule,         \* which component script the session runs
    size,         \* puzzle.size
    phase,        \* lifecycle of the component instance
    cells,        \* instance.cells       (KnightRace, setParams)
    groups,       \* instance.groups      (RotatingGears, setParams)
    gridSize,     \* instance.gridSize    (KnightRace, initialize)
    cellCount,    \* instance.cellCount   (KnightRace, initialize)
    distMap,      \* instance.distMap     (KnightRace, initialize)
    conflictMap,  \* instance.conflictMap (RotatingGears, initialize)
    value,        \* the engine's grid: value of each cell, NoValue when empty
    cands,        \* the engine's grid: pencil marks of each cell
    verdict,      \* result of the last validate call since the last grid change
    emitted,      \* directives yielded by the last update call
    moves         \* number of grid changes the engine made on its own

vars == <<rule, size, phase, cells, groups, gridSize, cellCount, distMap,
          conflictMap, value, cands, verdict, emitted, moves>>

(***************************************************************************)
(* Bounds of the model.                                                    *)
(***************************************************************************)
MaxSize == 5          \* grids of size 1 .. MaxSize are initialised
MaxPlayCells == 9     \* the engine changes grids of at most this many cells
MaxMoves == 2         \* grid changes the engine makes besides applying directives

(***************************************************************************)
(* Values of the host and of JavaScript.                                   *)
(***************************************************************************)
NoValue == 0

\* Infinity: larger than every finite distance and every digit of the model.
Infinity == (MaxSize + 1) * (MaxSize + 1) + 1

Undefined == "undefined"

CellsOf(n) == 0 .. (n * n - 1)

Digits(n) == 1 .. n

hasValue(val, cell) == val[cell] # NoValue

getValue(val, cell) == val[cell]

getCandidates(cnd, cell) == cnd[cell]

(***************************************************************************)
(* KnightRace: calculateDistances, a queue-based BFS from every start.     *)
(***************************************************************************)
\* Variant: the move (2, 1) is missing from the table.
moves8WithoutLast == << <<-2, -1>>, <<-2, 1>>, <<-1, -2>>, <<-1, 2>>,
                        <<1, -2>>, <<1, 2>>, <<2, -1>> >>

moves8 == << <<-2, -1>>, <<-2, 1>>, <<-1, -2>>, <<-1, 2>>,
             <<1, -2>>, <<1, 2>>, <<2, -1>>, <<2, 1>> >>

\* The for loop over the eight moves for one dequeued entry <<current, d>>.
\* st = [row |-> dists[start], queue |-> queue].
RECURSIVE ExpandMoves(_, _, _, _, _)
ExpandMoves(n, current, d, k, st) ==
    IF k > Len(moves8) THEN st
    ELSE LET r  == current \div n
             c  == current % n
             nr == r + moves8[k][1]
             nc == c + moves8[k][2]
             inside == nr >= 0 /\ nr < n /\ nc >= 0 /\ nc < n
             next == nr * n + nc
         IN  IF inside /\ st.row[next] = Infinity
             THEN ExpandMoves(n, current, d, k + 1,
                      [row   |-> [st.row EXCEPT ![next] = d + 1],
                       queue |-> Append(st.queue, <<next, d + 1>>)])
             ELSE ExpandMoves(n, current, d, k + 1, st)

\* The while loop: head runs over the queue until it is exhausted.
RECURSIVE BfsLoop(_, _, _)
BfsLoop(n, head, st) ==
    IF head > Len(st.queue) THEN st.row
    ELSE BfsLoop(n, head + 1,
                 ExpandMoves(n, st.queue[head][1], st.queue[head][2], 1, st))

BfsFrom(n, count, start) ==
    BfsLoop(n, 1, [row   |-> [i \in 0 .. (count - 1) |->
                                 IF i = start THEN 0 ELSE Infinity],
                   queue |-> << <<start, 0>> >>])

calculateDistances(n, count) ==
    [start \in 0 .. (count - 1) |-> BfsFrom(n, count, start)]

(***************************************************************************)
(* Directives a component yields to the engine.                            *)
(***************************************************************************)
\* SudokuDigitSet.from(array)
DigitSetFrom(arr) == {arr[k] : k \in 1 .. Len(arr)}

filterCandidatesInCells(digitSet, targets) ==
    [op |-> "filterCandidatesInCells", digits |-> digitSet, cells |-> targets]

\* Variant: the digits are kept instead of removed.
removeAsFilter(digitSet, targets) ==
    [op |-> "filterCandidatesInCells", digits |-> digitSet, cells |-> targets]

removeCandidatesFromCells(digitSet, targets) ==
    [op |-> "removeCandidatesFromCells", digits |-> digitSet, cells |-> targets]

\* puzzle.stop`...`: the diagnostic is represented by the cells it names.
stop(named) ==
    [op |-> "stop", digits |-> {}, cells |-> named]

(***************************************************************************)
(* KnightRace: validate.                                                   *)
(***************************************************************************)
\* The inner for loop of validate: scan i = from .. count-1 for other
\* cells holding the value 1.  acc = [minDistance, foundOne].
RECURSIVE ScanFixedOnes(_, _, _, _, _, _)
ScanFixedOnes(cell, i, count, dm, val, acc) ==
    IF i >= count THEN acc
    ELSE IF i = cell THEN ScanFixedOnes(cell, i + 1, count, dm, val, acc)
    ELSE IF hasValue(val, i) /\ getValue(val, i) = 1
         THEN LET d == dm[cell][i]
              IN  ScanFixedOnes(cell, i + 1, count, dm, val,
                      [minDistance |-> IF d < acc.minDistance THEN d
                                       ELSE acc.minDistance,
                       foundOne    |-> TRUE])
         ELSE ScanFixedOnes(cell, i + 1, count, dm, val, acc)

\* Variant: a 1 at exactly the claimed distance is rejected too.
TooCloseOrEqual(minDistance, cellValue) == minDistance <= cellValue

\* The comparison that makes validate return false for one constrained cell.
TooClose(minDistance, cellValue) == minDistance < cellValue

\* The outer for loop of validate over instance.cells, from index k on.
RECURSIVE ValidateFrom(_, _, _, _, _)
ValidateFrom(k, cs, dm, count, val) ==
    IF k > Len(cs) THEN TRUE
    ELSE LET cell == cs[k]
         IN  IF ~hasValue(val, cell) THEN ValidateFrom(k + 1, cs, dm, count, val)
             ELSE LET cellValue == getValue(val, cell)
                      scan == ScanFixedOnes(cell, 0, count, dm, val,
                                  [minDistance |-> Infinity, foundOne |-> FALSE])
                  IN  IF scan.foundOne /\ TooClose(scan.minDistance, cellValue)
                      THEN FALSE
                      ELSE ValidateFrom(k + 1, cs, dm, count, val)

\* Variant: a filled constrained cell without any other 1 on the grid is
\* rejected instead of being given the benefit of the doubt.
KnightRace_validateNoDoubt(cs, dm, count, val) ==
    /\ ValidateFrom(1, cs, dm, count, val)
    /\ \A k \in 1 .. Len(cs) :
           hasValue(val, cs[k]) =>
               \E i \in 0 .. (count - 1) : i # cs[k] /\ hasValue(val, i) /\ getValue(val, i) = 1

KnightRace_validate(cs, dm, count, val) == ValidateFrom(1, cs, dm, count, val)

(***************************************************************************)
(* KnightRace: update.                                                     *)
(***************************************************************************)
\* "Identify '1' locations": the loop i = 0 .. cellCount-1.
RECURSIVE CollectOnes(_, _, _, _, _)
CollectOnes(i, count, val, cnd, acc) ==
    IF i >= count THEN acc
    ELSE IF hasValue(val, i)
         THEN IF getValue(val, i) = 1
              THEN CollectOnes(i + 1, count, val, cnd,
                       [acc EXCEPT !.fixedOnes = Append(@, i)])
              ELSE CollectOnes(i + 1, count, val, cnd, acc)
         ELSE IF 1 \in getCandidates(cnd, i)
              THEN CollectOnes(i + 1, count, val, cnd,
                       [acc EXCEPT !.possibleOnes = Append(@, i)])
              ELSE CollectOnes(i + 1, count, val, cnd, acc)

\* Variant: the cell itself is not skipped.
RECURSIVE MinDistOverWithSelf(_, _, _, _)
MinDistOverWithSelf(list, cell, dm, acc) ==
    IF list = <<>> THEN acc
    ELSE LET d == dm[cell][Head(list)]
         IN  MinDistOverWithSelf(Tail(list), cell, dm, IF d < acc THEN d ELSE acc)

\* "for (const idx of list) { if (idx === cell) continue; ... d < acc ... }"
RECURSIVE MinDistOver(_, _, _, _)
MinDistOver(list, cell, dm, acc) ==
    IF list = <<>> THEN acc
    ELSE LET idx == Head(list)
         IN  IF idx = cell THEN MinDistOver(Tail(list), cell, dm, acc)
             ELSE LET d == dm[cell][idx]
                  IN  MinDistOver(Tail(list), cell, dm, IF d < acc THEN d ELSE acc)

\* Variant: the distance is not capped.
CapNever(dist, gs) == dist

\* "Cap distances at grid size"
CapAtGridSize(dist, gs) == IF dist > gs THEN gs ELSE dist

\* The loop v = 1 .. gridSize building the array allowed.
RECURSIVE AllowedFrom(_, _, _, _)
AllowedFrom(v, gs, minTheoDist, maxTheoDist) ==
    IF v > gs THEN <<>>
    ELSE IF v >= minTheoDist /\ v <= maxTheoDist
         THEN <<v>> \o AllowedFrom(v + 1, gs, minTheoDist, maxTheoDist)
         ELSE AllowedFrom(v + 1, gs, minTheoDist, maxTheoDist)

\* PART A for one constrained cell: minTheoDist and maxTheoDist after the
\* caps.
TheoBounds(cell, ones, dm, gs) ==
    [minTheoDist |-> CapAtGridSize(
                         MinDistOver(ones.possibleOnes, cell, dm,
                             MinDistOver(ones.fixedOnes, cell, dm, Infinity)), gs),
     maxTheoDist |-> CapAtGridSize(
                         MinDistOver(ones.fixedOnes, cell, dm, Infinity), gs)]

\* PART A for one constrained cell: the directive it yields.
ForwardBound(cell, ones, dm, gs) ==
    LET minTheoDist == TheoBounds(cell, ones, dm, gs).minTheoDist
        maxTheoDist == TheoBounds(cell, ones, dm, gs).maxTheoDist
        allowed == AllowedFrom(1, gs, minTheoDist, maxTheoDist)
    IN  IF Len(allowed) = 0
        THEN stop(<<cell>>)
        ELSE filterCandidatesInCells(DigitSetFrom(allowed), <<cell>>)

RECURSIVE PartA(_, _, _, _, _)
PartA(k, cs, ones, dm, gs) ==
    IF k > Len(cs) THEN <<>>
    ELSE <<ForwardBound(cs[k], ones, dm, gs)>> \o PartA(k + 1, cs, ones, dm, gs)

\* Variant: cells at exactly the distance val lose the 1 as well.
CloserOrEqual(d, v) == d <= v

\* "If 'i' is closer than 'val', it cannot be a '1'"
CloserThan(d, v) == d < v

\* PART B, the loop i = 0 .. cellCount-1 collecting tooCloseCells.
RECURSIVE TooCloseCells(_, _, _, _, _)
TooCloseCells(cell, i, count, dm, v) ==
    IF i >= count THEN <<>>
    ELSE IF i # cell /\ CloserThan(dm[cell][i], v)
         THEN <<i>> \o TooCloseCells(cell, i + 1, count, dm, v)
         ELSE TooCloseCells(cell, i + 1, count, dm, v)

\* Variant: back-propagation is skipped.
BackPropagateNothing(cell, dm, count, val) == <<>>

\* PART B for one constrained cell: zero or one directive.
BackPropagate(cell, dm, count, val) ==
    IF hasValue(val, cell)
    THEN LET tooCloseCells == TooCloseCells(cell, 0, count, dm, getValue(val, cell))
         IN  IF Len(tooCloseCells) > 0
             THEN <<removeCandidatesFromCells(DigitSetFrom(<<1>>), tooCloseCells)>>
             ELSE <<>>
    ELSE <<>>

RECURSIVE PartB(_, _, _, _, _)
PartB(k, cs, dm, count, val) ==
    IF k > Len(cs) THEN <<>>
    ELSE BackPropagate(cs[k], dm, count, val) \o PartB(k + 1, cs, dm, count, val)

\* The directives update yields, in order.  Directives change pencil marks
\* only, so the values PART B reads are those of the grid update was given.
KnightRace_update(cs, dm, gs, count, val, cnd) ==
    LET ones == CollectOnes(0, count, val, cnd,
                    [fixedOnes |-> <<>>, possibleOnes |-> <<>>])
    IN  PartA(1, cs, ones, dm, gs) \o PartB(1, cs, dm, count, val)

(***************************************************************************)
(* RotatingGears: arePeers, initialize (cellMoveMap, getLocation,          *)
(* conflictMap) and update.                                                *)
(***************************************************************************)
\* Number.isInteger(Math.sqrt(n))
IsPerfectSquare(n) == \E k \in 1 .. n : k * k = n

\* Math.sqrt(n) when it is an integer
IntegerSqrt(n) == CHOOSE k \in 1 .. n : k * k = n

arePeers(i, j, n) ==
    IF i = j THEN FALSE
    ELSE LET row1 == i \div n
             row2 == j \div n
             col1 == i % n
             col2 == j % n
         IN  IF row1 = row2 THEN TRUE
             ELSE IF col1 = col2 THEN TRUE
             ELSE IF IsPerfectSquare(n)
                  THEN LET boxH == IntegerSqrt(n)
                           boxW == n \div boxH
                           b1 == (row1 \div boxH) * boxH + (col1 \div boxW)
                           b2 == (row2 \div boxH) * boxH + (col2 \div boxW)
                       IN  b1 = b2
                  ELSE FALSE

\* cellMoveMap.set(cell, ...): a later entry for the same cell replaces the
\* earlier one.  idx is zero-based as in the source.
MapSet(map, cell, info) ==
    [c \in DOMAIN map \cup {cell} |-> IF c = cell THEN info ELSE map[c]]

\* group.cells.forEach((cell, idx) => cellMoveMap.set(...)), from idx on.
RECURSIVE MapGroupCells(_, _, _)
MapGroupCells(map, gcells, idx) ==
    IF idx >= Len(gcells) THEN map
    ELSE MapGroupCells(
             MapSet(map, gcells[idx + 1],
                    [cells |-> gcells, idx |-> idx,
                     N |-> Len(gcells) \div 4, len |-> Len(gcells)]),
             gcells, idx + 1)

\* Variant: the loop over the groups ends at the first group of a wrong
\* length (break in place of continue).
RECURSIVE BuildCellMoveMapBreaking(_, _, _)
BuildCellMoveMapBreaking(map, gs, k) ==
    IF k > Len(gs) THEN map
    ELSE IF Len(gs[k].cells) % 4 # 0
         THEN map
         ELSE BuildCellMoveMapBreaking(MapGroupCells(map, gs[k].cells, 0), gs, k + 1)

\* "Validate and map groups": groups of a length that is no multiple of 4
\* are skipped.
RECURSIVE BuildCellMoveMap(_, _, _)
BuildCellMoveMap(map, gs, k) ==
    IF k > Len(gs) THEN map
    ELSE IF Len(gs[k].cells) % 4 # 0
         THEN BuildCellMoveMap(map, gs, k + 1)
         ELSE BuildCellMoveMap(MapGroupCells(map, gs[k].cells, 0), gs, k + 1)

\* Variant: a rotation state shifts by r positions instead of r * N.
getLocationUnitShift(cellMoveMap, sourceCell, r) ==
    IF sourceCell \notin DOMAIN cellMoveMap THEN sourceCell
    ELSE LET info == cellMoveMap[sourceCell]
             newIdx == (info.idx + r) % info.len
         IN  info.cells[newIdx + 1]

getLocation(cellMoveMap, sourceCell, r) ==
    IF sourceCell \notin DOMAIN cellMoveMap THEN sourceCell
    ELSE LET info == cellMoveMap[sourceCell]
             newIdx == (info.idx + (r * info.N)) % info.len
         IN  info.cells[newIdx + 1]

\* Variant: the loop over the rotation states starts at r = 1.
RECURSIVE LinkedFromWithoutIdentity(_, _, _, _, _)
LinkedFromWithoutIdentity(r, i, j, cellMoveMap, n) ==
    IF r >= 4 THEN FALSE
    ELSE IF r >= 1 /\ arePeers(getLocation(cellMoveMap, i, r),
                               getLocation(cellMoveMap, j, r), n)
         THEN TRUE
         ELSE LinkedFromWithoutIdentity(r + 1, i, j, cellMoveMap, n)

\* The loop over the four rotation states r, leaving at the first link.
RECURSIVE LinkedFrom(_, _, _, _, _)
LinkedFrom(r, i, j, cellMoveMap, n) ==
    IF r >= 4 THEN FALSE
    ELSE IF arePeers(getLocation(cellMoveMap, i, r),
                     getLocation(cellMoveMap, j, r), n)
         THEN TRUE
         ELSE LinkedFrom(r + 1, i, j, cellMoveMap, n)

\* The inner loop j = from .. cellCount-1 for one i: the pairs found linked.
RECURSIVE LinkedPairsOf(_, _, _, _, _)
LinkedPairsOf(i, j, count, cellMoveMap, n) ==
    IF j >= count THEN <<>>
    ELSE (IF LinkedFrom(0, i, j, cellMoveMap, n) THEN << <<i, j>> >> ELSE <<>>)
         \o LinkedPairsOf(i, j + 1, count, cellMoveMap, n)

\* The outer loop i = from .. cellCount-1 over the pairs i < j.
RECURSIVE LinkedPairs(_, _, _, _)
LinkedPairs(i, count, cellMoveMap, n) ==
    IF i >= count THEN <<>>
    ELSE LinkedPairsOf(i, i + 1, count, cellMoveMap, n)
         \o LinkedPairs(i + 1, count, cellMoveMap, n)

\* Variant: conflictMap[j].add(i) is forgotten.
AddConflictsOneWay(count, pairs) ==
    [c \in 0 .. (count - 1) |->
        {pairs[k][2] : k \in {x \in 1 .. Len(pairs) : pairs[x][1] = c}}]

\* The sets after conflictMap[i].add(j) and conflictMap[j].add(i) have run
\* for every linked pair <<i, j>>.
AddConflicts(count, pairs) ==
    [c \in 0 .. (count - 1) |->
        {pairs[k][2] : k \in {x \in 1 .. Len(pairs) : pairs[x][1] = c}}
        \cup {pairs[k][1] : k \in {x \in 1 .. Len(pairs) : pairs[x][2] = c}}]

\* puzzle.size || 9
SizeOrDefault(puzzleSize) == IF puzzleSize = 0 THEN 9 ELSE puzzleSize

BuildConflictMap(gs, puzzleSize) ==
    LET n == SizeOrDefault(puzzleSize)
        count == n * n
        cellMoveMap == BuildCellMoveMap(<<>>, gs, 1)
    IN  AddConflicts(count, LinkedPairs(0, count, cellMoveMap, n))

\* Array.from(set): the sets of conflictMap are filled in ascending order.
RECURSIVE ArrayFrom(_)
ArrayFrom(set) ==
    IF set = {} THEN <<>>
    ELSE LET least == CHOOSE x \in set : \A y \in set : x <= y
         IN  <<least>> \o ArrayFrom(set \ {least})

\* The elimination loop over i = from .. conflictMap.length-1.
RECURSIVE EliminationLoop(_, _, _)
EliminationLoop(i, cm, val) ==
    IF i >= Cardinality(DOMAIN cm) THEN <<>>
    ELSE IF hasValue(val, i) /\ Cardinality(cm[i]) > 0
         THEN <<removeCandidatesFromCells(DigitSetFrom(<<getValue(val, i)>>),
                                          ArrayFrom(cm[i]))>>
              \o EliminationLoop(i + 1, cm, val)
         ELSE EliminationLoop(i + 1, cm, val)

\* Variant: the test peer > i is missing, so a clash is reported from both
\* of its cells.
RECURSIVE ClashesOfBothWays(_, _, _)
ClashesOfBothWays(i, peers, val) ==
    IF peers = <<>> THEN <<>>
    ELSE LET peer == Head(peers)
         IN  IF hasValue(val, peer) /\ getValue(val, i) = getValue(val, peer)
             THEN <<stop(<<i, peer>>)>> \o ClashesOfBothWays(i, Tail(peers), val)
             ELSE ClashesOfBothWays(i, Tail(peers), val)

\* The inner loop of the validation check over the peers of i.
RECURSIVE ClashesOf(_, _, _)
ClashesOf(i, peers, val) ==
    IF peers = <<>> THEN <<>>
    ELSE LET peer == Head(peers)
         IN  IF peer > i /\ hasValue(val, peer)
                /\ getValue(val, i) = getValue(val, peer)
             THEN <<stop(<<i, peer>>)>> \o ClashesOf(i, Tail(peers), val)
             ELSE ClashesOf(i, Tail(peers), val)

RECURSIVE ValidationLoop(_, _, _)
ValidationLoop(i, cm, val) ==
    IF i >= Cardinality(DOMAIN cm) THEN <<>>
    ELSE IF hasValue(val, i)
         THEN ClashesOf(i, ArrayFrom(cm[i]), val) \o ValidationLoop(i + 1, cm, val)
         ELSE ValidationLoop(i + 1, cm, val)

\* The directives update yields when the generator is run to its end.
RotatingGears_update(cm, val) ==
    EliminationLoop(0, cm, val) \o ValidationLoop(0, cm, val)

(***************************************************************************)
(* The engine: it consumes the directives of a generator in order, applies *)
(* each to the pencil marks and abandons the generator at a stop.          *)
(***************************************************************************)
RECURSIVE Consume(_)
Consume(dirs) ==
    IF dirs = <<>> THEN <<>>
    ELSE IF Head(dirs).op = "stop" THEN <<Head(dirs)>>
    ELSE <<Head(dirs)>> \o Consume(Tail(dirs))

\* Variant: a filter replaces the pencil marks by its digits instead of
\* intersecting them.
ApplyDirectiveReplacing(cnd, d) ==
    LET targets == DigitSetFrom(d.cells)
    IN  IF d.op = "filterCandidatesInCells"
        THEN [c \in DOMAIN cnd |-> IF c \in targets THEN d.digits ELSE cnd[c]]
        ELSE IF d.op = "removeCandidatesFromCells"
        THEN [c \in DOMAIN cnd |->
                 IF c \in targets THEN cnd[c] \ d.digits ELSE cnd[c]]
        ELSE cnd

ApplyDirective(cnd, d) ==
    LET targets == DigitSetFrom(d.cells)
    IN  IF d.op = "filterCandidatesInCells"
        THEN [c \in DOMAIN cnd |->
                 IF c \in targets THEN cnd[c] \cap d.digits ELSE cnd[c]]
        ELSE IF d.op = "removeCandidatesFromCells"
        THEN [c \in DOMAIN cnd |->
                 IF c \in targets THEN cnd[c] \ d.digits ELSE cnd[c]]
        ELSE cnd

RECURSIVE ApplyAll(_, _)
ApplyAll(cnd, dirs) ==
    IF dirs = <<>> THEN cnd
    ELSE ApplyAll(ApplyDirective(cnd, Head(dirs)), Tail(dirs))

Stopped(dirs) == \E k \in 1 .. Len(dirs) : dirs[k].op = "stop"

(***************************************************************************)
(* Inputs of a session: the constrained cells of a KnightRace component    *)
(* and the gears of the RotatingGears component.                           *)
(***************************************************************************)
\* One cell of each symmetry class of the square grid: the cells (r, c)
\* with r <= c <= (n-1) \div 2.
ClassCells(n) ==
    {x \in CellsOf(n) : (x \div n) <= (x % n) /\ (x % n) <= ((n - 1) \div 2)}

\* One constrained cell (any cell of a grid of at most two rows, a cell of
\* ClassCells on a larger grid), or cell 0 together with a second such cell.
CellChoices(n) ==
    LET from == IF n <= 2 THEN CellsOf(n) ELSE ClassCells(n)
    IN  {<<a>> : a \in from} \cup {<<0, b>> : b \in from \ {0}}

\* The four cells of a 2x2 block, clockwise from its top left cell (r, c).
Ring2(n, r, c) ==
    <<r * n + c, r * n + c + 1, (r + 1) * n + c + 1, (r + 1) * n + c>>

\* The eight border cells of a 3x3 block, clockwise from (r, c).
Ring3(n, r, c) ==
    <<r * n + c, r * n + c + 1, r * n + c + 2, (r + 1) * n + c + 2,
      (r + 2) * n + c + 2, (r + 2) * n + c + 1, (r + 2) * n + c, (r + 1) * n + c>>

\* Four consecutive cells of a row.
RowGear(n, r, c) == <<r * n + c, r * n + c + 1, r * n + c + 2, r * n + c + 3>>

\* Three cells: a group whose length is no multiple of 4.
Ell(n, r, c) == <<r * n + c, r * n + c + 1, (r + 1) * n + c + 1>>

\* All sequences of distinct cells drawn from a set.
RECURSIVE Arrangements(_)
Arrangements(set) ==
    {<<>>} \cup UNION {{<<x>> \o rest : rest \in Arrangements(set \ {x})} : x \in set}

Rings2(n) == {Ring2(n, r, c) : r \in 0 .. (n - 2), c \in 0 .. (n - 2)}

GearChoices(n) ==
    IF n <= 2 THEN Arrangements(CellsOf(n))
    ELSE Rings2(n) \cup {Ell(n, 0, 0)}
         \cup {Ring3(n, r, c) : r \in 0 .. (n - 3), c \in 0 .. (n - 3)}
         \cup {RowGear(n, r, c) : r \in 0 .. (n - 1), c \in 0 .. (n - 4)}

\* Second gears: the 2x2 rings whose top left cell is (0,0), (0,1) or (2,2)
\* and the three cells; the first two overlap the ring at (0,0).
SecondGears(n) ==
    {g \in Rings2(n) \cup {Ell(n, 0, 0)} : g[1] \in {0, 1, 2 * n + 2}}

\* No gear, one gear, or the top left 2x2 ring together with a second gear,
\* in either order.
GroupChoices(n) ==
    {<<>>} \cup {<<[cells |-> g]>> : g \in GearChoices(n)}
    \cup (IF n < 2 THEN {}
          ELSE {<<[cells |-> Ring2(n, 0, 0)], [cells |-> h]>> : h \in SecondGears(n)}
               \cup {<<[cells |-> h], [cells |-> Ring2(n, 0, 0)]>> : h \in SecondGears(n)})

(***************************************************************************)
(* The state after the component has been constructed (setParams has       *)
(* stored its parameters) on an empty grid with all pencil marks.          *)
(***************************************************************************)
Init ==
    /\ rule \in {"KnightRace", "RotatingGears"}
    /\ size \in 1 .. MaxSize
    /\ phase = "Created"
    /\ cells \in (IF rule = "KnightRace" THEN CellChoices(size) ELSE {Undefined})
    /\ groups \in (IF rule = "RotatingGears" THEN GroupChoices(size) ELSE {Undefined})
    /\ gridSize = Undefined
    /\ cellCount = Undefined
    /\ distMap = Undefined
    /\ conflictMap = Undefined
    /\ value = [c \in CellsOf(size) |-> NoValue]
    /\ cands = [c \in CellsOf(size) |-> Digits(size)]
    /\ verdict = "none"
    /\ emitted = <<>>
    /\ moves = 0

params == <<rule, size, cells, groups>>

caches == <<gridSize, cellCount, distMap, conflictMap>>

Callable == phase \in {"Initialized", "Active"}

(***************************************************************************)
(* Lifecycle hooks of KnightRace.                                          *)
(***************************************************************************)
\* Variant: the distance matrix is computed but not stored on the instance.
KnightRace_initializeWithoutDistMap ==
    /\ rule = "KnightRace"
    /\ phase = "Created"
    /\ gridSize' = size
    /\ cellCount' = size * size
    /\ phase' = "Initialized"
    /\ UNCHANGED <<params, distMap, conflictMap, value, cands, verdict, emitted, moves>>

KnightRace_initialize ==
    /\ rule = "KnightRace"
    /\ phase = "Created"
    /\ gridSize' = size
    /\ cellCount' = size * size
    /\ distMap' = calculateDistances(size, size * size)
    /\ phase' = "Initialized"
    /\ UNCHANGED <<params, conflictMap, value, cands, verdict, emitted, moves>>

KnightRace_validateCall ==
    /\ rule = "KnightRace"
    /\ Callable
    /\ verdict' = IF KnightRace_validate(cells, distMap, cellCount, value)
                  THEN "true" ELSE "false"
    /\ phase' = "Active"
    /\ UNCHANGED <<params, caches, value, cands, emitted, moves>>

KnightRace_updateCall ==
    /\ rule = "KnightRace"
    /\ Callable
    /\ LET dirs == Consume(KnightRace_update(cells, distMap, gridSize, cellCount,
                                              value, cands))
       IN  /\ emitted' = dirs
           /\ cands' = ApplyAll(cands, dirs)
           /\ phase' = IF Stopped(dirs) THEN "Stopped" ELSE "Active"
    /\ UNCHANGED <<params, caches, value, verdict, moves>>

(***************************************************************************)
(* Lifecycle hooks of RotatingGears.                                       *)
(***************************************************************************)
RotatingGears_initialize ==
    /\ rule = "RotatingGears"
    /\ phase = "Created"
    /\ conflictMap' = BuildConflictMap(groups, size)
    /\ phase' = "Initialized"
    /\ UNCHANGED <<params, gridSize, cellCount, distMap, value, cands, verdict,
                   emitted, moves>>

\* Variant: update empties the peer set of every filled cell once it has
\* used it.
RotatingGears_updateCallDraining ==
    /\ rule = "RotatingGears"
    /\ Callable
    /\ LET dirs == Consume(RotatingGears_update(conflictMap, value))
       IN  /\ emitted' = dirs
           /\ cands' = ApplyAll(cands, dirs)
           /\ phase' = IF Stopped(dirs) THEN "Stopped" ELSE "Active"
    /\ conflictMap' = [i \in DOMAIN conflictMap |->
                          IF hasValue(value, i) THEN {} ELSE conflictMap[i]]
    /\ UNCHANGED <<params, gridSize, cellCount, distMap, value, verdict, moves>>

RotatingGears_updateCall ==
    /\ rule = "RotatingGears"
    /\ Callable
    /\ LET dirs == Consume(RotatingGears_update(conflictMap, value))
       IN  /\ emitted' = dirs
           /\ cands' = ApplyAll(cands, dirs)
           /\ phase' = IF Stopped(dirs) THEN "Stopped" ELSE "Active"
    /\ UNCHANGED <<params, caches, value, verdict, moves>>

(***************************************************************************)
(* Grid changes of the host: a digit is entered into an empty cell, or     *)
(* another rule removes the pencil mark 1 (the only pencil mark a          *)
(* component reads) from an empty cell.                                    *)
(***************************************************************************)
Playable == Callable /\ size * size <= MaxPlayCells /\ moves < MaxMoves

SetValue(cell, digit) ==
    /\ Playable
    /\ ~hasValue(value, cell)
    /\ value' = [value EXCEPT ![cell] = digit]
    /\ verdict' = "none"
    /\ emitted' = <<>>
    /\ moves' = moves + 1
    /\ UNCHANGED <<params, caches, phase, cands>>

RemoveCandidate(cell) ==
    /\ Playable
    /\ rule = "KnightRace"
    /\ ~hasValue(value, cell)
    /\ 1 \in cands[cell]
    /\ cands' = [cands EXCEPT ![cell] = @ \ {1}]
    /\ verdict' = "none"
    /\ emitted' = <<>>
    /\ moves' = moves + 1
    /\ UNCHANGED <<params, caches, phase, value>>

Next ==
    \/ KnightRace_initialize
    \/ KnightRace_validateCall
    \/ KnightRace_updateCall
    \/ RotatingGears_initialize
    \/ RotatingGears_updateCall
    \/ \E cell \in CellsOf(size), digit \in Digits(size) : SetValue(cell, digit)
    \/ \E cell \in CellsOf(size) : RemoveCandidate(cell)

Spec == Init /\ [][Next]_vars

\* A session of the KnightRace script alone.
InitKnightRace == Init /\ rule = "KnightRace"

NextKnightRace ==
    \/ KnightRace_initialize
    \/ KnightRace_validateCall
    \/ KnightRace_updateCall
    \/ \E cell \in CellsOf(size), digit \in Digits(size) : SetValue(cell, digit)
    \/ \E cell \in CellsOf(size) : RemoveCandidate(cell)

SpecKnightRace == InitKnightRace /\ [][NextKnightRace]_vars

\* A session of the RotatingGears script alone.
InitRotatingGears == Init /\ rule = "RotatingGears"

NextRotatingGears ==
    \/ RotatingGears_initialize
    \/ RotatingGears_updateCall
    \/ \E cell \in CellsOf(size), digit \in Digits(size) : SetValue(cell, digit)

SpecRotatingGears == InitRotatingGears /\ [][NextRotatingGears]_vars

(***************************************************************************)
(* Reference notions the properties are stated against.                    *)
(***************************************************************************)
Abs(x) == IF x < 0 THEN -x ELSE x

\* b is one knight move away from a on the n x n grid.
KnightStep(n, a, b) ==
    Abs((a \div n) - (b \div n)) * Abs((a % n) - (b % n)) = 2

\* Cells reachable from a by exactly k knight moves and not by fewer, found
\* by growing the set of reached cells one move at a time.
RECURSIVE RefLayers(_, _, _, _, _)
RefLayers(n, frontier, seen, k, acc) ==
    IF frontier = {} THEN acc
    ELSE LET marked == [c \in CellsOf(n) |-> IF c \in frontier THEN k ELSE acc[c]]
             next == {b \in CellsOf(n) \ seen : \E a \in frontier : KnightStep(n, a, b)}
         IN  RefLayers(n, next, seen \cup next, k + 1, marked)

RefDistances(n) ==
    [a \in CellsOf(n) |->
        RefLayers(n, {a}, {a}, 0, [c \in CellsOf(n) |-> Infinity])]

\* The least distance from c to a cell of set, Infinity when set is empty.
NearestIn(dm, c, set) ==
    IF set = {} THEN Infinity
    ELSE CHOOSE d \in {dm[c][i] : i \in set} : \A i \in set : d <= dm[c][i]

Assigned(val) == {c \in DOMAIN val : val[c] # NoValue}

\* The other cells holding the value 1.
OtherOnes(val, c) == {i \in DOMAIN val \ {c} : val[i] = 1}

\* The other cells that hold 1 or may still take it.
OtherEligible(val, cnd, c) ==
    {i \in DOMAIN val \ {c} : val[i] = 1 \/ (val[i] = NoValue /\ 1 \in cnd[i])}

ConstrainedCells == {cells[k] : k \in 1 .. Len(cells)}

(***************************************************************************)
(* C1.  calculateDistances(size, size*size) is the exact knight distance   *)
(* of an independent computation (Infinity when unreachable); the matrix   *)
(* is symmetric, has a zero diagonal and satisfies the triangle            *)
(* inequality, and on the 5x5 grid the corner (0,0) is 4 moves from the    *)
(* centre (2,2).                                                           *)
(***************************************************************************)
C1_DistancesExact ==
    (rule = "KnightRace" /\ phase = "Initialized") =>
        /\ distMap = RefDistances(size)
        /\ \A a, b \in CellsOf(size) : distMap[a][b] = distMap[b][a]
        /\ \A a \in CellsOf(size) : distMap[a][a] = 0
        /\ \A a, b, c \in CellsOf(size) :
               distMap[a][c] <= distMap[a][b] + distMap[b][c]
        /\ (size = 5 => distMap[0 * 5 + 0][2 * 5 + 2] = 4)

C1_Witness ==
    /\ rule = "KnightRace" /\ phase = "Initialized" /\ size = 5
    /\ distMap[0][12] = 4
    /\ \E a, b \in CellsOf(size) : distMap[a][b] = 3

(***************************************************************************)
(* C2.  validate returns false exactly when some constrained cell c with   *)
(* value v has another cell holding 1 at knight distance less than v.      *)
(***************************************************************************)
DistanceViolation(c, i) ==
    /\ value[c] # NoValue
    /\ i # c
    /\ value[i] = 1
    /\ distMap[c][i] < value[c]

C2_ValidateIff ==
    (rule = "KnightRace" /\ verdict # "none") =>
        ((verdict = "false") <=>
            \E c \in ConstrainedCells, i \in CellsOf(size) : DistanceViolation(c, i))

\* A constrained cell holds 3, a 1 lies exactly two knight moves away and
\* validate has returned false.
C2_Witness ==
    /\ rule = "KnightRace" /\ verdict = "false"
    /\ \E c \in ConstrainedCells, i \in CellsOf(size) :
           value[c] = 3 /\ value[i] = 1 /\ distMap[c][i] = 2
    /\ Cardinality({i \in CellsOf(size) : value[i] = 1}) = 1

(***************************************************************************)
(* C3.  validate is sound: when it has returned false, no complete grid    *)
(* that keeps the present values gives every constrained cell the knight   *)
(* distance to the nearest other cell holding 1.                           *)
(***************************************************************************)
Completions ==
    {[c \in CellsOf(size) |-> IF value[c] # NoValue THEN value[c] ELSE f[c]] :
        f \in [CellsOf(size) \ Assigned(value) -> Digits(size)]}

\* Every constrained cell holds the distance to the nearest other 1.
RaceHolds(full) ==
    \A c \in ConstrainedCells : full[c] = NearestIn(distMap, c, OtherOnes(full, c))

C3_ValidateSound ==
    (rule = "KnightRace" /\ verdict = "false") =>
        \A full \in Completions : ~RaceHolds(full)

C3_Witness ==
    /\ rule = "KnightRace" /\ verdict = "false" /\ size = 3
    /\ Cardinality(Assigned(value)) = 2

(***************************************************************************)
(* The directives of an update call are stated against the grid the call   *)
(* was given: the unprimed value and cands of the step.                    *)
(***************************************************************************)
\* The bound of the forward phase after capping.
Clamped(dist) == IF dist > size THEN size ELSE dist

MinTheo(c) == Clamped(NearestIn(distMap, c, OtherEligible(value, cands, c)))

MaxTheo(c) == Clamped(NearestIn(distMap, c, OtherOnes(value, c)))

\* Every cell that may hold 1 is farther from c than the grid size, or
\* cannot be reached from c at all.
NoOneWithinReach(c) ==
    \A i \in OtherEligible(value, cands, c) : distMap[c][i] > size

StopsIn(dirs) == {k \in 1 .. Len(dirs) : dirs[k].op = "stop"}

(***************************************************************************)
(* C4.  Forward-bound phase: the directive update yields for the k-th      *)
(* constrained cell c is a filter carrying exactly the values v of         *)
(* 1 .. size with minTheoDist <= v <= maxTheoDist, both bounds capped at   *)
(* the grid size.                                                          *)
(***************************************************************************)
C4_ForwardBound ==
    [][KnightRace_updateCall =>
          \A k \in 1 .. Len(cells) :
              emitted'[k] = filterCandidatesInCells(
                  {v \in 1 .. size : MinTheo(cells[k]) <= v /\ v <= MaxTheo(cells[k])},
                  <<cells[k]>>)]_vars

\* update has narrowed a constrained cell to a range that is neither a
\* single value nor all of 1 .. size.
C4_Witness ==
    /\ rule = "KnightRace" /\ phase = "Active" /\ Len(emitted) > 0
    /\ emitted[1].op = "filterCandidatesInCells"
    /\ emitted[1].digits = {2, 3}
    /\ \E i \in CellsOf(size) : value[i] = 1
    /\ \E i \in CellsOf(size) : value[i] = NoValue /\ 1 \notin cands[i]

(***************************************************************************)
(* C5.  Forward-bound phase: when every cell eligible to hold 1 is farther *)
(* than the grid size from a constrained cell c, or unreachable from it,   *)
(* the allowed set of c is empty and update yields a stop naming c.        *)
(***************************************************************************)
C5_StopWhenOutOfReach ==
    [][KnightRace_updateCall =>
          \A k \in 1 .. Len(cells) :
              NoOneWithinReach(cells[k]) =>
                  \E j \in StopsIn(emitted') : emitted'[j] = stop(<<cells[k]>>)]_vars

(***************************************************************************)
(* C6.  When a constrained cell c holds v and another cell holding 1 lies  *)
(* closer than v, update yields a stop whose diagnostic names the          *)
(* offending cell.                                                         *)
(***************************************************************************)
C6_StopOnDistanceViolation ==
    [][KnightRace_updateCall =>
          \A c \in ConstrainedCells, i \in CellsOf(size) :
              DistanceViolation(c, i) =>
                  \E j \in StopsIn(emitted') :
                      DigitSetFrom(emitted'[j].cells) \cap {c, i} # {}]_vars

(***************************************************************************)
(* C6 as amended.  In that situation update yields no stop: its filter for *)
(* c excludes v and its removal directive for c forbids 1 in the offending *)
(* cell; it is validate that reports the violation, by returning false.    *)
(***************************************************************************)
C6_ViolationHandling ==
    [][/\ KnightRace_updateCall =>
              \A k \in 1 .. Len(cells), i \in CellsOf(size) :
                  DistanceViolation(cells[k], i) =>
                      /\ StopsIn(emitted') = {}
                      /\ emitted'[k].op = "filterCandidatesInCells"
                      /\ value[cells[k]] \notin emitted'[k].digits
                      /\ \E j \in 1 .. Len(emitted') :
                             /\ emitted'[j].op = "removeCandidatesFromCells"
                             /\ emitted'[j].digits = {1}
                             /\ i \in DigitSetFrom(emitted'[j].cells)
       /\ KnightRace_validateCall =>
              ((\E c \in ConstrainedCells, i \in CellsOf(size) :
                    DistanceViolation(c, i)) => verdict' = "false")]_vars

\* update has run on a grid with a distance violation.
C6_Witness ==
    /\ rule = "KnightRace" /\ phase = "Active" /\ Len(emitted) > 0
    /\ \E c \in ConstrainedCells, i \in CellsOf(size) : DistanceViolation(c, i)

(***************************************************************************)
(* C7.  Back-propagation phase: for every constrained cell c holding v the *)
(* removal directive forbids 1 in exactly the cells i # c with             *)
(* dist(c, i) < v; nothing is yielded for c when there is no such cell or  *)
(* when c is empty.                                                        *)
(***************************************************************************)
\* The cells in which a 1 would be closer to c than the value of c.
CloserCells(c) == {i \in CellsOf(size) \ {c} : distMap[c][i] < value[c]}

\* The positions in instance.cells that yield a removal directive.
BackPositions ==
    {k \in 1 .. Len(cells) : value[cells[k]] # NoValue /\ CloserCells(cells[k]) # {}}

\* The j-th smallest element of a set of numbers.
NthOf(set, j) == CHOOSE k \in set : Cardinality({x \in set : x < k}) = j - 1

C7_BackPropagation ==
    [][KnightRace_updateCall =>
          LET partB == SubSeq(emitted', Len(cells) + 1, Len(emitted'))
          IN  /\ Len(partB) = Cardinality(BackPositions)
              /\ \A j \in 1 .. Len(partB) :
                     LET c == cells[NthOf(BackPositions, j)]
                     IN  /\ partB[j].op = "removeCandidatesFromCells"
                         /\ partB[j].digits = {1}
                         /\ DigitSetFrom(partB[j].cells) = CloserCells(c)
                         /\ Len(partB[j].cells) = Cardinality(CloserCells(c))]_vars

\* update has forbidden 1 around a constrained cell holding 3, and yielded
\* nothing for a second constrained cell that is empty.
C7_Witness ==
    /\ rule = "KnightRace" /\ phase = "Active" /\ Len(cells) = 2
    /\ Len(emitted) = 3
    /\ emitted[3].op = "removeCandidatesFromCells"
    /\ \E c \in ConstrainedCells : value[c] = 3
    /\ \E c \in ConstrainedCells : value[c] = NoValue

(***************************************************************************)
(* Gears as the data model describes them: every gear has a length that is *)
(* a multiple of 4 and no cell lies on two gears or twice on one.          *)
(***************************************************************************)
GearPlaces == {<<g, p>> : g \in 1 .. Len(groups), p \in 1 .. (size * size)}

\* The places <<gear, position>> at which a cell is listed.
PlacesOf(c) ==
    {gp \in GearPlaces : gp[2] <= Len(groups[gp[1]].cells)
                         /\ groups[gp[1]].cells[gp[2]] = c}

WellFormedGears ==
    /\ \A g \in 1 .. Len(groups) : Len(groups[g].cells) % 4 = 0
    /\ \A c \in CellsOf(size) : Cardinality(PlacesOf(c)) <= 1

\* The image of cell c under rotation state r: position p of a gear of
\* length L moves to position (p + r * (L/4)) mod L, positions counted from
\* 0; a cell on no gear stays.
Image(c, r) ==
    IF PlacesOf(c) = {} THEN c
    ELSE LET gp == CHOOSE x \in PlacesOf(c) : TRUE
             gear == groups[gp[1]].cells
             L == Len(gear)
         IN  gear[(((gp[2] - 1) + r * (L \div 4)) % L) + 1]

GhostPeers(i, j) ==
    \E r \in 0 .. 3 : arePeers(Image(i, r), Image(j, r), size)

(***************************************************************************)
(* C8.  After initialize, for distinct cells i and j, j is in              *)
(* conflictMap[i] exactly when some rotation state r makes the images of i *)
(* and j static peers.                                                     *)
(***************************************************************************)
C8_ConflictMapExact ==
    (rule = "RotatingGears" /\ phase = "Initialized" /\ WellFormedGears) =>
        \A i, j \in CellsOf(size) :
            i # j => ((j \in conflictMap[i]) <=> GhostPeers(i, j))

\* Two cells that are no static peers are linked by a rotation of a gear.
C8_Witness ==
    /\ rule = "RotatingGears" /\ phase = "Initialized" /\ WellFormedGears
    /\ Len(groups) > 0
    /\ \E i, j \in CellsOf(size) :
           i # j /\ ~arePeers(i, j, size) /\ j \in conflictMap[i]
    /\ \E i, j \in CellsOf(size) : i # j /\ j \notin conflictMap[i]

(***************************************************************************)
(* C9.  For every group configuration the conflictMap built by initialize  *)
(* is symmetric and irreflexive.                                           *)
(***************************************************************************)
C9_SymmetricIrreflexive ==
    (rule = "RotatingGears" /\ phase = "Initialized") =>
        /\ \A i, j \in CellsOf(size) :
               (j \in conflictMap[i]) <=> (i \in conflictMap[j])
        /\ \A i \in CellsOf(size) : i \notin conflictMap[i]

\* Overlapping gears, one of them of a length that is no multiple of 4.
C9_Witness ==
    /\ rule = "RotatingGears" /\ phase = "Initialized" /\ ~WellFormedGears
    /\ Len(groups) = 2
    /\ \E g \in 1 .. Len(groups) : Len(groups[g].cells) % 4 # 0
    /\ \E c \in CellsOf(size) : Cardinality(PlacesOf(c)) = 2
    /\ \E i \in CellsOf(size) : conflictMap[i] # {}

(***************************************************************************)
(* C10.  update yields, for every cell i that holds a value v and has a    *)
(* ghost peer, a removal directive for digit v on exactly the cells of     *)
(* conflictMap[i], and no removal directive for an empty cell.             *)
(***************************************************************************)
IsRemoval(d) == d.op = "removeCandidatesFromCells"

\* The cells on whose behalf update removes a pencil mark.
Eliminators == {i \in CellsOf(size) : value[i] # NoValue /\ conflictMap[i] # {}}

C10_Elimination ==
    [][RotatingGears_updateCall =>
          LET removals == SelectSeq(emitted', IsRemoval)
          IN  /\ Len(removals) = Cardinality(Eliminators)
              /\ \A j \in 1 .. Len(removals) :
                     LET i == NthOf(Eliminators, j)
                     IN  /\ removals[j].digits = {value[i]}
                         /\ DigitSetFrom(removals[j].cells) = conflictMap[i]
                         /\ Len(removals[j].cells) = Cardinality(conflictMap[i])]_vars

\* update has run with a filled cell that has ghost peers, a filled cell
\* without any, and empty cells.
C10_Witness ==
    /\ rule = "RotatingGears" /\ phase = "Active"
    /\ Len(SelectSeq(emitted, IsRemoval)) = 1
    /\ Cardinality(Assigned(value)) = 1
    /\ \E i \in CellsOf(size) : value[i] = NoValue /\ conflictMap[i] # {}

(***************************************************************************)
(* C11.  update yields a stop for a pair of cells exactly when the two are *)
(* linked in conflictMap, both hold a value and the values are equal; the  *)
(* stop names that pair.  The engine, which abandons the generator at its  *)
(* first stop, sees a stop exactly when such a pair exists.                *)
(***************************************************************************)
IsStop(d) == d.op = "stop"

\* The pairs i < j of linked cells holding the same value.
ClashingPairs ==
    {p \in CellsOf(size) \X CellsOf(size) :
        /\ p[1] < p[2]
        /\ p[2] \in conflictMap[p[1]]
        /\ value[p[1]] # NoValue
        /\ value[p[1]] = value[p[2]]}

C11_StopIffClash ==
    [][(moves' = moves /\ RotatingGears_updateCall) =>
          LET stops == SelectSeq(RotatingGears_update(conflictMap, value), IsStop)
              clashing == ClashingPairs
          IN  /\ Len(stops) = Cardinality(clashing)
              /\ {stops[k] : k \in 1 .. Len(stops)}
                     = {stop(<<p[1], p[2]>>) : p \in clashing}
              /\ (StopsIn(emitted') # {}) <=> (clashing # {})
              /\ \A k \in StopsIn(emitted') :
                     \E p \in clashing : emitted'[k] = stop(<<p[1], p[2]>>)
              /\ (phase' = "Stopped") <=> (clashing # {})]_vars

\* update has stopped on two equal cells that share no row or column and
\* are linked by a rotation of a gear only.
C11_Witness ==
    /\ rule = "RotatingGears" /\ phase = "Stopped" /\ Len(groups) > 0
    /\ Len(emitted) = 3
    /\ \E p \in ClashingPairs :
           /\ ~arePeers(p[1], p[2], size)
           /\ emitted[3] = stop(<<p[1], p[2]>>)

(***************************************************************************)
(* C12.  Idempotence: once the directives of an update call have been      *)
(* applied, a second update call on the resulting grid, with no grid       *)
(* change in between, removes no pencil mark from any empty cell.          *)
(***************************************************************************)
\* The pencil marks after a further update call on the grid <<val, cnd>>.
AfterUpdateAgain(val, cnd) ==
    IF rule = "KnightRace"
    THEN ApplyAll(cnd, Consume(KnightRace_update(cells, distMap, gridSize,
                                                 cellCount, val, cnd)))
    ELSE ApplyAll(cnd, Consume(RotatingGears_update(conflictMap, val)))

C12_UpdateIdempotent ==
    [][(KnightRace_updateCall \/ RotatingGears_updateCall) =>
          \A c \in CellsOf(size) :
              value[c] = NoValue => AfterUpdateAgain(value', cands')[c] = cands'[c]]_vars

\* The part of C12 that concerns RotatingGears.
C12_GearsIdempotent ==
    [][RotatingGears_updateCall => AfterUpdateAgain(value', cands') = cands']_vars

(***************************************************************************)
(* C13.  A grid without any value is never reported as an error: validate  *)
(* of KnightRace returns true and neither update yields a stop, whatever   *)
(* the grid size, the constrained cells or the groups.                     *)
(***************************************************************************)
\* verdict and emitted are reset by every grid change, so on a grid
\* without values they stem from calls made on a grid without values.
C13_NoErrorOnEmptyGrid ==
    Assigned(value) = {} =>
        /\ verdict # "false"
        /\ StopsIn(emitted) = {}
        /\ phase # "Stopped"

\* validate and update of KnightRace have both run on the untouched grid.
C13_Witness ==
    /\ rule = "KnightRace" /\ phase = "Active" /\ moves = 0
    /\ Assigned(value) = {}
    /\ verdict = "true"
    /\ Len(emitted) = Len(cells)

(***************************************************************************)
(* C14.  Lifecycle ordering: initialize runs once, from Created to         *)
(* Initialized, and stores every cache; validate and update run only       *)
(* afterwards, with the caches of their rule set, and lead to Active (or   *)
(* to Stopped); Created and Initialized are never entered again, and no    *)
(* hook leaves the component in Created or in Initialized.                 *)
(***************************************************************************)
\* A field of the instance has been assigned.
IsSet(field) == ToString(field) # ToString(Undefined)

CachesSet ==
    IF rule = "KnightRace"
    THEN IsSet(gridSize) /\ IsSet(cellCount) /\ IsSet(distMap)
    ELSE IsSet(conflictMap)

InitializeStep == KnightRace_initialize \/ RotatingGears_initialize

\* A hook is no grid change of the host: the counter moves stays.
HookStep ==
    /\ moves' = moves
    /\ KnightRace_validateCall \/ KnightRace_updateCall \/ RotatingGears_updateCall

C15_CachesReadOnly ==
    [][/\ HookStep => UNCHANGED <<cells, groups, gridSize, cellCount, distMap,
                                   conflictMap>>
       /\ phase # "Created" => UNCHANGED <<params, caches>>]_vars

\* update of RotatingGears has used the peer sets of two filled cells.
C15_Witness ==
    /\ rule = "RotatingGears" /\ phase = "Active" /\ CachesSet
    /\ Len(emitted) = 2
    /\ \A k \in 1 .. 2 : emitted[k].op = "removeCandidatesFromCells"

(***************************************************************************)
(* C16.  In every reachable grid state and for every constrained cell the  *)
(* capped bounds of the forward phase satisfy                              *)
(* 1 <= minTheoDist <= maxTheoDist <= size, so that the array allowed is   *)
(* never empty.                                                            *)
(***************************************************************************)
\* The bounds update would compute for cell c on the current grid.
BoundsNow(c) ==
    TheoBounds(c, CollectOnes(0, cellCount, value, cands,
                              [fixedOnes |-> <<>>, possibleOnes |-> <<>>]),
               distMap, gridSize)

C16_BoundsOrdered ==
    (rule = "KnightRace" /\ phase # "Created") =>
        \A c \in ConstrainedCells :
            LET bounds == BoundsNow(c)
            IN  /\ 1 <= bounds.minTheoDist
                /\ bounds.minTheoDist <= bounds.maxTheoDist
                /\ bounds.maxTheoDist <= size
                /\ AllowedFrom(1, gridSize, bounds.minTheoDist,
                               bounds.maxTheoDist) # <<>>

\* A constrained cell with 1 = minTheoDist < maxTheoDist < size next to one
\* whose bounds were both capped.
C16_Witness ==
    /\ rule = "KnightRace" /\ phase = "Active" /\ size = 3
    /\ \E c \in ConstrainedCells :
           BoundsNow(c).minTheoDist = 1 /\ BoundsNow(c).maxTheoDist = 2
    /\ \E c \in ConstrainedCells :
           /\ BoundsNow(c).minTheoDist = 3
           /\ NearestIn(distMap, c, OtherEligible(value, cands, c)) = Infinity

(***************************************************************************)
(* C17.  update of KnightRace is sound: a complete grid that agrees with   *)
(* the values present, takes the value of every empty cell from its pencil *)
(* marks and satisfies the rule loses none of its values to a directive of *)
(* update.                                                                 *)
(***************************************************************************)
\* A complete grid is described by the set ones of its cells holding 1
\* and, cell by cell, a value for each other cell; whether it satisfies the
\* rule depends on ones and on the values of the constrained cells only.
\* The sets of cells that can be the 1s of a complete grid extending the
\* values by pencil marks:
OnesChoices ==
    LET fixed == {i \in CellsOf(size) : value[i] = 1}
        possible == {i \in CellsOf(size) : value[i] = NoValue /\ 1 \in cands[i]}
    IN  {fixed \cup extra : extra \in SUBSET possible}

\* The values cell i can take in such a grid whose 1s are the cells of ones.
ValuesAt(i, ones) ==
    IF value[i] # NoValue THEN {value[i]}
    ELSE IF i \in ones THEN {1}
    ELSE cands[i] \ {1}

\* Those that satisfy the rule when i is a constrained cell.
SoundValuesAt(i, ones) ==
    IF i \in ConstrainedCells
    THEN {v \in ValuesAt(i, ones) : v = NearestIn(distMap, i, ones \ {i})}
    ELSE ValuesAt(i, ones)

\* Some complete grid with these 1s satisfies the rule.
Completable(ones) ==
    /\ \A c \in ConstrainedCells : SoundValuesAt(c, ones) # {}
    /\ \A i \in CellsOf(size) : ValuesAt(i, ones) # {}

\* Directive d leaves digit v in cell i.
Keeps(d, i, v) ==
    i \in DigitSetFrom(d.cells) =>
        /\ d.op = "filterCandidatesInCells" => v \in d.digits
        /\ d.op = "removeCandidatesFromCells" => v \notin d.digits

C17_UpdateSound ==
    [][(moves' = moves /\ size * size <= MaxPlayCells /\ KnightRace_updateCall) =>
          \A ones \in OnesChoices :
              Completable(ones) =>
                  \A k \in 1 .. Len(emitted') :
                      \A i \in DigitSetFrom(emitted'[k].cells) :
                          \A v \in SoundValuesAt(i, ones) : Keeps(emitted'[k], i, v)]_vars

\* update has narrowed a constrained cell and forbidden 1 around another
\* on a grid that can still be completed.
C17_Witness ==
    /\ rule = "KnightRace" /\ phase = "Active" /\ size = 3 /\ Len(cells) = 2
    /\ Len(emitted) = 3
    /\ emitted[1].digits # Digits(size)
    /\ emitted[3].op = "removeCandidatesFromCells"
    /\ \E ones \in OnesChoices : Completable(ones)

(***************************************************************************)
(* C18.  Every step of a rule (initialize, validate, update, with the      *)
(* engine applying the directives) leaves the values of the grid unchanged *)
(* and can only shrink the pencil marks of a cell; the directives yielded  *)
(* are filterCandidatesInCells, removeCandidatesFromCells and stop only.   *)
(***************************************************************************)
C18_CandidatesShrink ==
    [][\/ /\ value' = value
          /\ \A c \in CellsOf(size) : cands'[c] \subseteq cands[c]
          /\ \A k \in 1 .. Len(emitted') :
                 emitted'[k].op \in {"filterCandidatesInCells",
                                     "removeCandidatesFromCells", "stop"}
       \/ ~(InitializeStep \/ HookStep)]_vars

\* update of KnightRace has filtered an empty constrained cell that had
\* lost the pencil mark 1 before, and has removed pencil marks elsewhere.
C18_Witness ==
    /\ rule = "KnightRace" /\ phase = "Active" /\ Len(emitted) > Len(cells)
    /\ emitted[1].op = "filterCandidatesInCells"
    /\ 1 \in emitted[1].digits
    /\ value[cells[1]] = NoValue
    /\ 1 \notin cands[cells[1]]

(***************************************************************************)
(* C19.  The ghost-peer graph contains the static peer relation: two       *)
(* distinct cells that share a row, a column or, on a grid whose size is a *)
(* perfect square, a box are linked in conflictMap, whatever the groups.   *)
(***************************************************************************)
C19_StaticPeersLinked ==
    (rule = "RotatingGears" /\ phase = "Initialized") =>
        \A i, j \in CellsOf(size) :
            (i # j /\ arePeers(i, j, size)) => j \in conflictMap[i]

\* A cell on a gear of the 4x4 grid and a cell off the gear that share a
\* column, the gear never bringing the first into a house of the second
\* in the rotation states 1 to 3.
C19_Witness ==
    /\ rule = "RotatingGears" /\ phase = "Initialized" /\ size = 4
    /\ IsPerfectSquare(size) /\ WellFormedGears /\ Len(groups) = 1
    /\ \E i, j \in CellsOf(size) :
           /\ PlacesOf(i) # {} /\ PlacesOf(j) = {}
           /\ arePeers(i, j, size)
           /\ \A r \in 1 .. 3 : ~arePeers(Image(i, r), j, size)
           /\ j \in conflictMap[i]

(***************************************************************************)
(* C20.  A group whose length is no multiple of 4 is skipped by initialize *)
(* without a stop: its cells stay in place under every rotation state      *)
(* unless a group of valid length lists them, the groups of valid length   *)
(* are mapped all the same, and conflictMap is built for all cells.        *)
(***************************************************************************)
HasGearLength(g) == Len(g.cells) % 4 = 0

\* The places <<group, position>> at which a group of valid length lists c.
ValidPlacesOf(c) == {gp \in PlacesOf(c) : HasGearLength(groups[gp[1]])}

\* The image of c under rotation state r when only the groups of valid
\* length rotate.
ValidImage(c, r) ==
    IF ValidPlacesOf(c) = {} THEN c
    ELSE LET gp == CHOOSE x \in ValidPlacesOf(c) : TRUE
             gear == groups[gp[1]].cells
             L == Len(gear)
         IN  gear[(((gp[2] - 1) + r * (L \div 4)) % L) + 1]

C20_InvalidGroupSkipped ==
    [][(/\ RotatingGears_initialize
        /\ \E g \in 1 .. Len(groups) : ~HasGearLength(groups[g])
        /\ \A c \in CellsOf(size) : Cardinality(ValidPlacesOf(c)) <= 1) =>
          /\ phase' = "Initialized"
          /\ emitted' = <<>>
          /\ cands' = cands
          /\ DOMAIN conflictMap' = CellsOf(size)
          /\ \A i, j \in CellsOf(size) :
                 (j \in conflictMap'[i]) <=>
                     \E r \in 0 .. 3 :
                         arePeers(ValidImage(i, r), ValidImage(j, r), size)]_vars

\* A group of three cells was skipped and the gear listed after it rotates.
C20_Witness ==
    /\ rule = "RotatingGears" /\ phase = "Initialized" /\ Len(groups) = 2
    /\ ~HasGearLength(groups[1]) /\ HasGearLength(groups[2])
    /\ \E i, j \in CellsOf(size) :
           i # j /\ ~arePeers(i, j, size) /\ j \in conflictMap[i]

====
